---- MODULE Spec2Model ----
(***************************************************************************)
(* Storage Box Management web app (src/app.py): a Flask application over   *)
(* one SQLite file with the tables boxes and items, plus a directory of    *)
(* generated QR images.                                                    *)
(*                                                                         *)
(* The model is a state machine of the request handlers.  The Flask        *)
(* development server is threaded, so several handlers may run at once;   *)
(* each worker runs one handler at a time, statement by statement.  Every  *)
(* handler opens its own sqlite3 connection (get_db).  Python's sqlite3    *)
(* opens a transaction implicitly before INSERT/UPDATE/DELETE, the first   *)
(* write statement takes the database's write lock, conn.commit()          *)
(* publishes the changes and releases it.  A handler that ends in an       *)
(* exception never reaches conn.close(): its connection stays open (and    *)
(* keeps the write lock if a statement had started a transaction) until    *)
(* the interpreter finalizes the object.                                   *)
(*                                                                         *)
(* Text that the code converts (the tags list, the quantity field) is a    *)
(* sequence of one-character strings, so that join, split and int() are    *)
(* computed and not assumed.  Other text is an uninterpreted string.       *)
(***************************************************************************)
EXTENDS Integers, Sequences, FiniteSets, TLC

\* ------------------------------------------------------------------ bounds
\* Worker threads serving requests at the same time.
NumWorkers == 2
\* add_box requests are accepted while fewer than MaxBoxes ids were assigned.
MaxBoxes == 2
\* add_item requests are accepted while fewer than MaxItems ids were assigned.
MaxItems == 2
\* Requests are accepted while fewer than MaxLeaked connections, left open by
\* failed handlers, await finalization.
MaxLeaked == 1

Workers == 1 .. NumWorkers
BoxIds == 1 .. MaxBoxes
ItemIds == 1 .. MaxItems

\* --------------------------------------------------------------- text data
\* CHECK(duration IN ('long-term', 'short-term', 'seasonal'))
Durations == {"long-term", "short-term", "seasonal"}

\* "kitchen", "tools", "winter gear", shortened to their initials.
TagKitchen == <<"k">>
TagTools == <<"t">>
TagWinterGear == <<"w", " ", "g">>
\* A tag that holds a comma, "k,t", and the empty tag.
TagWithComma == <<"k", ",", "t">>
TagEmpty == <<>>

Digits == {"0", "1", "2", "3", "4", "5", "6", "7", "8", "9"}

DigitVal(c) ==
    CASE c = "0" -> 0 [] c = "1" -> 1 [] c = "2" -> 2 [] c = "3" -> 3
      [] c = "4" -> 4 [] c = "5" -> 5 [] c = "6" -> 6 [] c = "7" -> 7
      [] c = "8" -> 8 [] c = "9" -> 9

RECURSIVE DigitsVal(_)
DigitsVal(s) ==
    IF s = <<>> THEN 0
    ELSE 10 * DigitsVal(SubSeq(s, 1, Len(s) - 1)) + DigitVal(s[Len(s)])

IsDigits(s) == Len(s) > 0 /\ \A i \in 1 .. Len(s) : s[i] \in Digits

\* int(text), for text without blanks or underscores: an optional sign and at
\* least one decimal digit; anything else raises ValueError.
IntOk(s) ==
    \/ IsDigits(s)
    \/ Len(s) > 1 /\ s[1] \in {"-", "+"} /\ IsDigits(Tail(s))

IntOf(s) ==
    IF s[1] = "-" THEN 0 - DigitsVal(Tail(s))
    ELSE IF s[1] = "+" THEN DigitsVal(Tail(s))
    ELSE DigitsVal(s)

\* sep.join(list)
RECURSIVE Join(_, _)
Join(sep, list) ==
    IF list = <<>> THEN <<>>
    ELSE IF Len(list) = 1 THEN list[1]
    ELSE list[1] \o sep \o Join(sep, Tail(list))

\* ", ".join(tags) of add_box
AddBoxTagsStr(tags) == Join(<<",", " ">>, tags)

\* ",".join(tags) of edit_box
EditBoxTagsStr(tags) == Join(<<",">>, tags)

\* The reader's side of the encoding: the stored string split at every comma,
\* the empty string being the empty collection.
RECURSIVE SplitFrom(_, _)
SplitFrom(s, cur) ==
    IF s = <<>> THEN <<cur>>
    ELSE IF s[1] = "," THEN <<cur>> \o SplitFrom(Tail(s), <<>>)
    ELSE SplitFrom(Tail(s), Append(cur, s[1]))

SplitTags(s) == IF s = <<>> THEN <<>> ELSE SplitFrom(s, <<>>)

\* ------------------------------------------------------------- form access
\* request.form[k] raises BadRequestKeyError when k is not a field of the form.
Has(form, k) == k \in DOMAIN form

\* request.form.get(k, default)
Get(form, k, default) == IF k \in DOMAIN form THEN form[k] ELSE default

\* request.form.getlist("tags")
GetList(form, k) == IF k \in DOMAIN form THEN form[k] ELSE <<>>

\* ---------------------------------------------------------------- the store
\* The database after init_db: both tables empty, no id assigned yet.
EmptyDb == [boxes |-> {}, items |-> {}, boxSeq |-> 0, itemSeq |-> 0]

\* SELECT id, box_name, description, duration, tags FROM boxes
SelectBoxes(d) == d.boxes

\* SELECT * FROM boxes WHERE id=?
SelectBox(d, id) == {b \in d.boxes : b.id = id}

\* SELECT * FROM items WHERE box_id=?
SelectItems(d, box_id) == {i \in d.items : i.box_id = box_id}

\* SELECT id, box_id, item_name, quantity, notes FROM items WHERE id=?
SelectItem(d, id) == {i \in d.items : i.id = id}

\* INSERT INTO boxes (box_name, description, duration, tags): AUTOINCREMENT
\* takes the id after the largest ever assigned.
InsertBox(d, name, desc, duration, tags_str) ==
    [d EXCEPT !.boxes = @ \cup {[id |-> d.boxSeq + 1, box_name |-> name,
                                 description |-> desc, duration |-> duration,
                                 tags |-> tags_str]},
              !.boxSeq = @ + 1]

\* The CHECK constraint of boxes.duration.
DurationOk(duration) == duration \in Durations

\* INSERT INTO items (box_id, item_name, quantity, notes): foreign keys are
\* declared but the connection never enables them, so box_id is not looked up.
InsertItem(d, box_id, name, qty, notes) ==
    [d EXCEPT !.items = @ \cup {[id |-> d.itemSeq + 1, box_id |-> box_id,
                                 item_name |-> name, quantity |-> qty,
                                 notes |-> notes]},
              !.itemSeq = @ + 1]

\* UPDATE items SET item_name=?, quantity=?, notes=? WHERE id=?
UpdateItem(d, id, name, qty, notes) ==
    [d EXCEPT !.items = {IF i.id = id
                         THEN [i EXCEPT !.item_name = name, !.quantity = qty,
                                        !.notes = notes]
                         ELSE i : i \in @}]

\* DELETE FROM items WHERE id=?
DeleteItem(d, id) == [d EXCEPT !.items = {i \in @ : i.id # id}]

\* DELETE FROM boxes WHERE id = ?
DeleteBoxRow(d, id) == [d EXCEPT !.boxes = {b \in @ : b.id # id}]

\* (a delete_box that forgets the items)
DeleteBoxItemsNone(d, box_id) == d

\* DELETE FROM items WHERE box_id = ?
DeleteBoxItems(d, box_id) == [d EXCEPT !.items = {i \in @ : i.box_id # box_id}]

\* (an UPDATE that adds the new tags to the old ones)
UpdateBoxUnion(d, id, name, desc, duration, tags_str) ==
    [d EXCEPT !.boxes = {IF b.id = id
                         THEN [b EXCEPT !.box_name = name, !.description = desc,
                                        !.duration = duration,
                                        !.tags = IF @ = <<>> \/ tags_str = <<>>
                                                 THEN @ \o tags_str
                                                 ELSE @ \o <<",">> \o tags_str]
                         ELSE b : b \in @}]

\* UPDATE boxes SET box_name=?, description=?, duration=?, tags=? WHERE id=?
UpdateBox(d, id, name, desc, duration, tags_str) ==
    [d EXCEPT !.boxes = {IF b.id = id
                         THEN [b EXCEPT !.box_name = name, !.description = desc,
                                        !.duration = duration, !.tags = tags_str]
                         ELSE b : b \in @}]

\* ------------------------------------------------------------------- state
VARIABLES
    db,          \* storage.db as committed: [boxes, items, boxSeq, itemSeq]
    pending,     \* the write-lock holder's uncommitted copy (db when unlocked)
    lock,        \* the workers whose connection holds the write lock (0 or 1)
    stale,       \* a connection left open by a failed handler holds the lock
    leaked,      \* connections left open by failed handlers, no transaction
    qr,          \* box ids with a file static/qr/box_{id}.png
    pc,          \* per worker: the statement its handler is at, or "idle"
    req,         \* per worker: the request it is serving
    conn,        \* per worker: its handler's connection is open
    loc,         \* per worker: the handler's local variables
    res,         \* history: the response of the handler that finished last
    prev,        \* history: db before the last commit
    lastCommit   \* history: the request of the last commit and its lastrowid

vars == <<db, pending, lock, stale, leaked, qr, pc, req, conn, loc, res,
          prev, lastCommit>>

NoReq == [op |-> "none"]
NoLoc == [rowid |-> 0, box |-> {}]
NoRes == [req |-> NoReq, status |-> "none", error |-> "", box |-> {},
          items |-> {}, boxes |-> {}, overlapped |-> {}]
NoCommit == [req |-> NoReq, rowid |-> 0]

\* storage.db as init_db leaves it, no handler running.
Init ==
    /\ db = EmptyDb
    /\ pending = EmptyDb
    /\ lock = {}
    /\ stale = FALSE
    /\ leaked = 0
    /\ qr = {}
    /\ pc = [p \in Workers |-> "idle"]
    /\ req = [p \in Workers |-> NoReq]
    /\ conn = [p \in Workers |-> FALSE]
    /\ loc = [p \in Workers |-> NoLoc]
    /\ res = NoRes
    /\ prev = EmptyDb
    /\ lastCommit = NoCommit

\* The requests the other workers are serving right now.
InFlight(p) == {req[q] : q \in {w \in Workers : w # p /\ pc[w] # "idle"}}

\* ------------------------------------------------------- handler plumbing
\* get_db(): a new connection of the handler's own.
get_db(p) == conn' = [conn EXCEPT ![p] = TRUE]

\* The handler returns a response (render_template or redirect), or Flask
\* turns its exception into one; the worker is free again.
Return(p, status, error, box, items, boxes) ==
    /\ pc' = [pc EXCEPT ![p] = "idle"]
    /\ res' = [req |-> req[p], status |-> status, error |-> error,
               box |-> box, items |-> items, boxes |-> boxes,
               overlapped |-> InFlight(p)]
    /\ req' = [req EXCEPT ![p] = NoReq]
    /\ loc' = [loc EXCEPT ![p] = NoLoc]

Goto(p, label) ==
    /\ pc' = [pc EXCEPT ![p] = label]
    /\ UNCHANGED <<req, res>>

\* An exception before get_db(): no connection exists.
RaiseNoConn(p, status, error) ==
    /\ Return(p, status, error, {}, {}, {})
    /\ UNCHANGED <<db, pending, lock, stale, leaked, qr, conn, prev, lastCommit>>

\* An exception after get_db() and outside a transaction: conn.close() is
\* never reached and the connection stays open.
RaiseOpen(p, status, error) ==
    /\ Return(p, status, error, {}, {}, {})
    /\ leaked' = leaked + 1
    /\ conn' = [conn EXCEPT ![p] = FALSE]
    /\ UNCHANGED <<db, pending, lock, stale, qr, prev, lastCommit>>

\* An exception raised by a write statement: the statement's changes are
\* undone, the transaction sqlite3 began for it stays open on the connection
\* that is never closed, and with it the write lock.
RaiseInTx(p, status, error) ==
    /\ Return(p, status, error, {}, {}, {})
    /\ stale' = TRUE
    /\ lock' = {}
    /\ pending' = db
    /\ conn' = [conn EXCEPT ![p] = FALSE]
    /\ UNCHANGED <<db, leaked, qr, prev, lastCommit>>

\* The write lock is free: the statement may start its transaction.
LockFree == lock = {} /\ ~stale

\* The lock is held by a connection nobody will commit or close: the
\* statement waits out the busy timeout and raises OperationalError.
LockedOut == lock = {} /\ stale

\* conn.execute of the first write statement of a handler.
Write(p, after, label) ==
    /\ LockFree
    /\ lock' = {p}
    /\ pending' = after
    /\ Goto(p, label)
    /\ UNCHANGED <<db, stale, leaked, qr, prev, lastCommit>>

\* conn.commit(); conn.close()
Commit(p) ==
    /\ lock = {p}
    /\ db' = pending
    /\ pending' = pending
    /\ prev' = db
    /\ lastCommit' = [req |-> req[p], rowid |-> loc[p].rowid]
    /\ lock' = {}
    /\ conn' = [conn EXCEPT ![p] = FALSE]
    /\ UNCHANGED <<stale, leaked>>

\* The workers serving a request of kind op.
Serving(op) == Cardinality({q \in Workers : pc[q] # "idle" /\ req[q].op = op})

\* A request reaches an idle worker.  The history variables start afresh:
\* they describe what happened since the last arrival.
Arrive(p, r) ==
    /\ pc[p] = "idle"
    /\ r.op = "add_box" => db.boxSeq + Serving("add_box") < MaxBoxes
    /\ r.op = "add_item" => db.itemSeq + Serving("add_item") < MaxItems
    /\ leaked < MaxLeaked
    /\ pc' = [pc EXCEPT ![p] = r.op]
    /\ req' = [req EXCEPT ![p] = r]
    /\ res' = NoRes
    /\ prev' = EmptyDb
    /\ lastCommit' = NoCommit
    /\ UNCHANGED <<db, pending, lock, stale, leaked, qr, conn, loc>>

\* The interpreter finalizes a connection nobody closed: it is closed, its
\* open transaction rolled back, its lock released.
Finalize ==
    /\ \/ leaked > 0 /\ leaked' = leaked - 1 /\ UNCHANGED stale
       \/ stale /\ stale' = FALSE /\ UNCHANGED leaked
    /\ UNCHANGED <<db, pending, lock, qr, pc, req, conn, loc, res, prev,
                   lastCommit>>

\* ---------------------------------------------------------------- handlers
\* list_boxes: one SELECT between get_db() and conn.close().
list_boxes(p) ==
    /\ pc[p] = "list_boxes"
    /\ Return(p, "200", "", {}, {}, SelectBoxes(db))
    /\ UNCHANGED <<db, pending, lock, stale, leaked, qr, conn, prev, lastCommit>>

\* generate_qr(box_id, host): writes (or overwrites) static/qr/box_{id}.png.
generate_qr(files, box_id) == files \cup {box_id}

\* add_box, reading the form: box_name is required, the rest has defaults.
add_box(p) ==
    /\ pc[p] = "add_box"
    /\ \/ /\ ~Has(req[p].form, "box_name")
          /\ RaiseNoConn(p, "400", "BadRequestKeyError")
       \/ /\ Has(req[p].form, "box_name")
          /\ Goto(p, "add_box_insert")
          /\ UNCHANGED <<db, pending, lock, stale, leaked, qr, conn, loc, prev,
                         lastCommit>>

\* add_box: get_db() and the INSERT; box_id = c.lastrowid.
add_box_insert(p) ==
    /\ pc[p] = "add_box_insert"
    /\ LET f == req[p].form
           duration == Get(f, "duration", "long-term")
       IN \/ /\ LockedOut
             /\ RaiseOpen(p, "500", "OperationalError")
          \/ /\ LockFree
             /\ ~DurationOk(duration)
             /\ RaiseInTx(p, "500", "IntegrityError")
          \/ /\ DurationOk(duration)
             /\ Write(p, InsertBox(db, f.box_name, Get(f, "description", ""),
                                   duration, AddBoxTagsStr(GetList(f, "tags"))),
                      "add_box_commit")
             /\ get_db(p)
             /\ loc' = [loc EXCEPT ![p].rowid = db.boxSeq + 1]

\* add_box: conn.commit(); conn.close()
add_box_commit(p) ==
    /\ pc[p] = "add_box_commit"
    /\ Commit(p)
    /\ Goto(p, "add_box_qr")
    /\ UNCHANGED <<qr, loc>>

\* add_box: generate_qr(box_id, host), flash, redirect.
add_box_qr(p) ==
    /\ pc[p] = "add_box_qr"
    /\ qr' = generate_qr(qr, loc[p].rowid)
    /\ Return(p, "302", "", {}, {}, {})
    /\ UNCHANGED <<db, pending, lock, stale, leaked, conn, prev, lastCommit>>

\* view_box: get_db() and the SELECT of the box; box is None when no row has
\* the id, and nothing tests it.
view_box(p) ==
    /\ pc[p] = "view_box"
    /\ get_db(p)
    /\ loc' = [loc EXCEPT ![p].box = SelectBox(db, req[p].box_id)]
    /\ Goto(p, "view_box_items")
    /\ UNCHANGED <<db, pending, lock, stale, leaked, qr, prev, lastCommit>>

\* view_box: the SELECT of the items, conn.close(), render_template.
view_box_items(p) ==
    /\ pc[p] = "view_box_items"
    /\ Return(p, "200", "", loc[p].box, SelectItems(db, req[p].box_id), {})
    /\ conn' = [conn EXCEPT ![p] = FALSE]
    /\ UNCHANGED <<db, pending, lock, stale, leaked, qr, prev, lastCommit>>

\* add_item, reading the form: item_name and quantity are required, quantity
\* goes through int().
add_item(p) ==
    /\ pc[p] = "add_item"
    /\ LET f == req[p].form
       IN \/ /\ ~(Has(f, "item_name") /\ Has(f, "quantity"))
             /\ RaiseNoConn(p, "400", "BadRequestKeyError")
          \/ /\ Has(f, "item_name") /\ Has(f, "quantity")
             /\ ~IntOk(f.quantity)
             /\ RaiseNoConn(p, "500", "ValueError")
          \/ /\ Has(f, "item_name") /\ Has(f, "quantity")
             /\ IntOk(f.quantity)
             /\ Goto(p, "add_item_insert")
             /\ UNCHANGED <<db, pending, lock, stale, leaked, qr, conn, loc,
                            prev, lastCommit>>

\* add_item: get_db() and the INSERT.
add_item_insert(p) ==
    /\ pc[p] = "add_item_insert"
    /\ LET f == req[p].form
       IN \/ /\ LockedOut
             /\ RaiseOpen(p, "500", "OperationalError")
          \/ /\ Write(p, InsertItem(db, req[p].box_id, f.item_name,
                                    IntOf(f.quantity), Get(f, "notes", "")),
                      "add_item_commit")
             /\ get_db(p)
             /\ loc' = [loc EXCEPT ![p].rowid = db.itemSeq + 1]

\* add_item: conn.commit(); conn.close(); flash, redirect.
add_item_commit(p) ==
    /\ pc[p] = "add_item_commit"
    /\ Commit(p)
    /\ Return(p, "302", "", {}, {}, {})
    /\ UNCHANGED qr

\* edit_item: get_db() comes first; GET shows the item, POST reads the form
\* with the connection already open.
edit_item(p) ==
    /\ pc[p] = "edit_item"
    /\ LET f == req[p].form
       IN \/ /\ req[p].method = "GET"
             /\ Return(p, "200", "", {}, SelectItem(db, req[p].item_id), {})
             /\ UNCHANGED <<db, pending, lock, stale, leaked, qr, conn, prev,
                            lastCommit>>
          \/ /\ req[p].method = "POST"
             /\ ~(Has(f, "item_name") /\ Has(f, "quantity"))
             /\ RaiseOpen(p, "400", "BadRequestKeyError")
          \/ /\ req[p].method = "POST"
             /\ Has(f, "item_name") /\ Has(f, "quantity")
             /\ ~IntOk(f.quantity)
             /\ RaiseOpen(p, "500", "ValueError")
          \/ /\ req[p].method = "POST"
             /\ Has(f, "item_name") /\ Has(f, "quantity")
             /\ IntOk(f.quantity)
             /\ get_db(p)
             /\ Goto(p, "edit_item_update")
             /\ UNCHANGED <<db, pending, lock, stale, leaked, qr, loc, prev,
                            lastCommit>>

\* edit_item: the UPDATE.
edit_item_update(p) ==
    /\ pc[p] = "edit_item_update"
    /\ LET f == req[p].form
       IN \/ /\ LockedOut
             /\ RaiseOpen(p, "500", "OperationalError")
          \/ /\ Write(p, UpdateItem(db, req[p].item_id, f.item_name,
                                    IntOf(f.quantity), Get(f, "notes", "")),
                      "edit_item_commit")
             /\ UNCHANGED <<conn, loc>>

\* edit_item: conn.commit(); conn.close(); then request.form["box_id"] for
\* the redirect.
edit_item_commit(p) ==
    /\ pc[p] = "edit_item_commit"
    /\ Commit(p)
    /\ IF Has(req[p].form, "box_id")
       THEN Return(p, "302", "", {}, {}, {})
       ELSE Return(p, "400", "BadRequestKeyError", {}, {}, {})
    /\ UNCHANGED qr

\* delete_item: get_db() and the DELETE.
delete_item(p) ==
    /\ pc[p] = "delete_item"
    /\ \/ /\ LockedOut
          /\ RaiseOpen(p, "500", "OperationalError")
       \/ /\ Write(p, DeleteItem(db, req[p].item_id), "delete_item_commit")
          /\ get_db(p)
          /\ UNCHANGED loc

\* delete_item: conn.commit(); conn.close(); flash, redirect.
delete_item_commit(p) ==
    /\ pc[p] = "delete_item_commit"
    /\ Commit(p)
    /\ Return(p, "302", "", {}, {}, {})
    /\ UNCHANGED qr

\* delete_box: get_db() and DELETE FROM boxes.
delete_box(p) ==
    /\ pc[p] = "delete_box"
    /\ \/ /\ LockedOut
          /\ RaiseOpen(p, "500", "OperationalError")
       \/ /\ Write(p, DeleteBoxRow(db, req[p].box_id), "delete_box_items")
          /\ get_db(p)
          /\ UNCHANGED loc

\* delete_box: DELETE FROM items, in the transaction of the first DELETE.
delete_box_items(p) ==
    /\ pc[p] = "delete_box_items"
    /\ lock = {p}
    /\ pending' = DeleteBoxItems(pending, req[p].box_id)
    /\ Goto(p, "delete_box_commit")
    /\ UNCHANGED <<db, lock, stale, leaked, qr, conn, loc, prev, lastCommit>>

\* delete_box: conn.commit(); conn.close(); flash, redirect.
delete_box_commit(p) ==
    /\ pc[p] = "delete_box_commit"
    /\ Commit(p)
    /\ Return(p, "302", "", {}, {}, {})
    /\ UNCHANGED qr

\* edit_box: get_db() comes first; GET shows the box, POST reads the form
\* with the connection already open.
edit_box(p) ==
    /\ pc[p] = "edit_box"
    /\ \/ /\ req[p].method = "GET"
          /\ Return(p, "200", "", SelectBox(db, req[p].box_id), {}, {})
          /\ UNCHANGED <<db, pending, lock, stale, leaked, qr, conn, prev,
                         lastCommit>>
       \/ /\ req[p].method = "POST"
          /\ ~Has(req[p].form, "box_name")
          /\ RaiseOpen(p, "400", "BadRequestKeyError")
       \/ /\ req[p].method = "POST"
          /\ Has(req[p].form, "box_name")
          /\ get_db(p)
          /\ Goto(p, "edit_box_update")
          /\ UNCHANGED <<db, pending, lock, stale, leaked, qr, loc, prev,
                         lastCommit>>

\* edit_box: the UPDATE; the CHECK on duration is evaluated for the rows the
\* WHERE clause selects, so it cannot fail when no row has the id.
edit_box_update(p) ==
    /\ pc[p] = "edit_box_update"
    /\ LET f == req[p].form
           duration == Get(f, "duration", "")
           hit == SelectBox(db, req[p].box_id) # {}
       IN \/ /\ LockedOut
             /\ RaiseOpen(p, "500", "OperationalError")
          \/ /\ LockFree
             /\ hit /\ ~DurationOk(duration)
             /\ RaiseInTx(p, "500", "IntegrityError")
          \/ /\ ~hit \/ DurationOk(duration)
             /\ Write(p, UpdateBox(db, req[p].box_id, f.box_name,
                                   Get(f, "description", ""), duration,
                                   EditBoxTagsStr(GetList(f, "tags"))),
                      "edit_box_commit")
             /\ UNCHANGED <<conn, loc>>

\* edit_box: conn.commit(); conn.close(); flash, redirect.
edit_box_commit(p) ==
    /\ pc[p] = "edit_box_commit"
    /\ Commit(p)
    /\ Return(p, "302", "", {}, {}, {})
    /\ UNCHANGED qr

\* ---------------------------------------------------------------- requests
TagLists ==
    {<<>>, <<TagKitchen, TagTools>>, <<TagWinterGear>>, <<TagWithComma>>,
     <<TagEmpty>>}

\* POST /add_box
AddBoxForms ==
    {[description |-> "d"],
     [box_name |-> "", description |-> "d", duration |-> "seasonal",
      tags |-> <<>>],
     [box_name |-> "n", description |-> "d", duration |-> "", tags |-> <<>>],
     [box_name |-> "n"]}
    \cup {[box_name |-> "n", description |-> "d", duration |-> "short-term",
           tags |-> t] : t \in TagLists}

\* POST /box/<id>/edit
EditBoxForms ==
    {[description |-> "e"],
     [box_name |-> "m", description |-> "e", tags |-> <<TagWinterGear>>]}
    \cup {[box_name |-> "m", description |-> "e", duration |-> "seasonal",
           tags |-> t] : t \in TagLists}

\* POST /box/<id>/add_item
AddItemForms ==
    {[notes |-> "s"],
     [item_name |-> "i", notes |-> "s"],
     [item_name |-> "i", quantity |-> <<"x">>],
     [item_name |-> "i", quantity |-> <<"2">>, notes |-> "s"],
     [item_name |-> "i", quantity |-> <<"-", "1">>],
     [item_name |-> "i", quantity |-> <<"0">>]}

\* POST /edit_item/<id>
EditItemForms ==
    {[notes |-> "s"],
     [item_name |-> "j", quantity |-> <<>>, box_id |-> 1],
     [item_name |-> "j", quantity |-> <<"1", "0">>, notes |-> "u",
      box_id |-> 1],
     [item_name |-> "j", quantity |-> <<"3">>]}

\* The requests of the concurrent specification: one of each kind, about
\* box 1 and item 1, and an add_box the CHECK constraint refuses.
ConcurrentRequests ==
    {[op |-> "list_boxes"],
     [op |-> "view_box", box_id |-> 1],
     [op |-> "edit_item", method |-> "POST", item_id |-> 1,
      form |-> [item_name |-> "j", quantity |-> <<"3">>, box_id |-> 1]],
     [op |-> "delete_item", item_id |-> 1, box_id |-> 1],
     [op |-> "edit_box", method |-> "POST", box_id |-> 1,
      form |-> [box_name |-> "m", description |-> "e",
                duration |-> "seasonal", tags |-> <<TagWinterGear>>]],
     [op |-> "add_box",
      form |-> [box_name |-> "n", description |-> "d",
                duration |-> "short-term", tags |-> <<TagKitchen, TagTools>>]],
     [op |-> "add_box",
      form |-> [box_name |-> "n", description |-> "d", duration |-> "",
                tags |-> <<>>]],
     [op |-> "add_item", box_id |-> 1,
      form |-> [item_name |-> "i", quantity |-> <<"2">>, notes |-> "s"]],
     [op |-> "delete_box", box_id |-> 1]}

\* The requests about boxes, and one that fills them.
BoxRequests ==
    {[op |-> "list_boxes"]}
    \cup {[op |-> "add_box", form |-> f] : f \in AddBoxForms}
    \cup {[op |-> "view_box", box_id |-> b] : b \in BoxIds}
    \cup {[op |-> "add_item", box_id |-> b,
           form |-> [item_name |-> "i", quantity |-> <<"2">>, notes |-> "s"]] :
            b \in BoxIds}
    \cup {[op |-> "delete_box", box_id |-> b] : b \in BoxIds}
    \cup {[op |-> "edit_box", method |-> "GET", box_id |-> b,
           form |-> [description |-> ""]] : b \in BoxIds}
    \cup {[op |-> "edit_box", method |-> "POST", box_id |-> b, form |-> f] :
            b \in BoxIds, f \in EditBoxForms}

\* The requests about items, and the view of a box.
ItemRequests ==
    {[op |-> "view_box", box_id |-> b] : b \in BoxIds}
    \cup {[op |-> "add_item", box_id |-> b, form |-> f] :
            b \in BoxIds, f \in AddItemForms}
    \cup {[op |-> "edit_item", method |-> "GET", item_id |-> i,
           form |-> [notes |-> ""]] : i \in ItemIds}
    \cup {[op |-> "edit_item", method |-> "POST", item_id |-> i, form |-> f] :
            i \in ItemIds, f \in EditItemForms}
    \cup {[op |-> "delete_item", item_id |-> i, box_id |-> b] :
            i \in ItemIds, b \in BoxIds}

\* ------------------------------------------------------------ specification
AddBoxSteps(p) ==
    add_box(p) \/ add_box_insert(p) \/ add_box_commit(p) \/ add_box_qr(p)

ViewBoxSteps(p) == view_box(p) \/ view_box_items(p)

AddItemSteps(p) == add_item(p) \/ add_item_insert(p) \/ add_item_commit(p)

EditItemSteps(p) ==
    edit_item(p) \/ edit_item_update(p) \/ edit_item_commit(p)

DeleteItemSteps(p) == delete_item(p) \/ delete_item_commit(p)

DeleteBoxSteps(p) ==
    delete_box(p) \/ delete_box_items(p) \/ delete_box_commit(p)

EditBoxSteps(p) == edit_box(p) \/ edit_box_update(p) \/ edit_box_commit(p)

\* Every worker thread serves requests: concurrent handlers.
Next ==
    \/ \E p \in Workers : \E r \in ConcurrentRequests : Arrive(p, r)
    \/ \E p \in Workers : list_boxes(p)
    \/ \E p \in Workers : AddBoxSteps(p)
    \/ \E p \in Workers : ViewBoxSteps(p)
    \/ \E p \in Workers : AddItemSteps(p)
    \/ \E p \in Workers : EditItemSteps(p)
    \/ \E p \in Workers : DeleteItemSteps(p)
    \/ \E p \in Workers : DeleteBoxSteps(p)
    \/ \E p \in Workers : EditBoxSteps(p)
    \/ Finalize

Spec == Init /\ [][Next]_vars

\* One request at a time (worker 1 alone): the requests about boxes.  A
\* handler whose kind of request never arrives never runs, so only the
\* handlers of BoxRequests appear.
NextBoxes ==
    \/ \E r \in BoxRequests : Arrive(1, r)
    \/ list_boxes(1)
    \/ AddBoxSteps(1)
    \/ ViewBoxSteps(1)
    \/ AddItemSteps(1)
    \/ DeleteBoxSteps(1)
    \/ EditBoxSteps(1)
    \/ Finalize

SpecBoxes == Init /\ [][NextBoxes]_vars

\* One request at a time (worker 1 alone): the requests about items.
NextItems ==
    \/ \E r \in ItemRequests : Arrive(1, r)
    \/ ViewBoxSteps(1)
    \/ AddItemSteps(1)
    \/ EditItemSteps(1)
    \/ DeleteItemSteps(1)
    \/ Finalize

SpecItems == Init /\ [][NextItems]_vars

\* ------------------------------------------------------------------ claims
\* A form that add_item accepts: a name and a quantity int() can read.
ValidItemForm(f) == Has(f, "item_name") /\ Has(f, "quantity") /\ IntOk(f.quantity)

\* Tag members a comma-separated string can carry: none is empty, none holds
\* a comma.
CleanTags(tags) ==
    \A i \in 1 .. Len(tags) :
        /\ tags[i] # <<>>
        /\ \A j \in 1 .. Len(tags[i]) : tags[i][j] # ","

\* C1: once delete_box(id) has committed, no boxes row has the id and no items
\* row has box_id = id: the box is absent from the listing of boxes and the
\* listing of the items of the box (view_box's SELECT) is empty.
C1_DeleteBoxRemovesBoxAndItems ==
    lastCommit.req.op = "delete_box" =>
        LET id == lastCommit.req.box_id
        IN /\ SelectBox(db, id) = {}
           /\ \A b \in SelectBoxes(db) : b.id # id
           /\ SelectItems(db, id) = {}
           /\ \A i \in db.items : i.box_id # id

\* A delete_box has just committed for a box that existed and held items.
C1_Witness ==
    /\ lastCommit.req.op = "delete_box"
    /\ SelectBox(prev, lastCommit.req.box_id) # {}
    /\ SelectItems(prev, lastCommit.req.box_id) # {}

\* C2: in every reachable state every stored item's box_id is the id of a box
\* that exists (no orphaned item), also after add_item with a box id that was
\* never created or was deleted.
C2_NoOrphanItems == \A i \in db.items : SelectBox(db, i.box_id) # {}

\* C3: after an add_box that succeeds with a submitted name, description,
\* duration and tags (no tag empty or holding a comma), the row view_box
\* fetches for the new id has exactly the submitted name, description and
\* duration, and its tags string split at the commas is the submitted list.
C3_CreateBoxRoundTrip ==
    LET f == lastCommit.req.form
    IN (/\ lastCommit.req.op = "add_box"
        /\ Has(f, "description") /\ Has(f, "duration")
        /\ CleanTags(GetList(f, "tags")))
       => \E row \in SelectBox(db, lastCommit.rowid) :
              /\ row.box_name = f.box_name
              /\ row.description = f.description
              /\ row.duration = f.duration
              /\ SplitTags(row.tags) = GetList(f, "tags")

\* C4: add_box with an empty name is rejected (a 400 response) and changes
\* nothing: it commits no row and writes no label file.
C4_EmptyNameRejected ==
    /\ (res.req.op = "add_box" /\ Has(res.req.form, "box_name")
        /\ res.req.form.box_name = "") => res.status = "400"
    /\ lastCommit.req.op = "add_box" => lastCommit.req.form.box_name # ""
    /\ \A b \in db.boxes : b.box_name # ""

\* C5: view_box of an id no boxes row has answers not-found (404); it answers
\* with the box and its items (200) only when the box exists.
C5_ViewBoxNotFound ==
    res.req.op = "view_box" =>
        IF res.box = {} THEN res.status = "404" ELSE res.status = "200"

\* C6: add_item with a name and no quantity succeeds and stores quantity 1;
\* add_item with an integer quantity stores that integer.
C6_QuantityDefaultsToOne ==
    /\ (res.req.op = "add_item" /\ Has(res.req.form, "item_name")
        /\ ~Has(res.req.form, "quantity")) => res.status = "302"
    /\ lastCommit.req.op = "add_item" =>
           \E row \in SelectItem(db, lastCommit.rowid) :
               row.quantity = IF Has(lastCommit.req.form, "quantity")
                              THEN IntOf(lastCommit.req.form.quantity)
                              ELSE 1

\* C7: when an add_item finishes while another worker is serving an add_item
\* for the same box, it has succeeded: its row is in the listing of the box
\* under an id no row had, and every row there was is still there.
C7_ConcurrentAddItemsSucceed ==
    (/\ res.req.op = "add_item"
     /\ ValidItemForm(res.req.form)
     /\ \E r \in res.overlapped :
            /\ r.op = "add_item"
            /\ r.box_id = res.req.box_id
            /\ ValidItemForm(r.form))
    => /\ res.status = "302"
       /\ lastCommit.req = res.req
       /\ \E i \in SelectItems(db, res.req.box_id) : i.id = lastCommit.rowid
       /\ SelectItem(prev, lastCommit.rowid) = {}
       /\ prev.items \subseteq db.items

\* The rows edit_box leaves: the row of the id holds what was submitted, its
\* id, the items and every other box are as before.
EditBoxReplaced(f, id) ==
    /\ \A row \in SelectBox(db, id) :
           /\ row.box_name = f.box_name
           /\ row.description = Get(f, "description", "")
           /\ row.duration = Get(f, "duration", "")
           /\ SplitTags(row.tags) = GetList(f, "tags")
    /\ Cardinality(SelectBox(db, id)) = 1
    /\ {b.id : b \in db.boxes} = {b.id : b \in prev.boxes}
    /\ {b \in db.boxes : b.id # id} = {b \in prev.boxes : b.id # id}
    /\ db.items = prev.items
    /\ db.boxSeq = prev.boxSeq /\ db.itemSeq = prev.itemSeq

\* C8 as claimed: after an edit_box that commits on an existing box, the row
\* fetched again holds exactly the submitted tag members, whatever they are,
\* with the new name, description and duration; the id, the items and every
\* other box are unchanged.
C8_EditBoxFullReplaceAnyTags ==
    (lastCommit.req.op = "edit_box"
     /\ SelectBox(prev, lastCommit.req.box_id) # {})
    => EditBoxReplaced(lastCommit.req.form, lastCommit.req.box_id)

\* C8, amended: the same for tag members that are not empty and hold no comma.
C8_EditBoxFullReplace ==
    (/\ lastCommit.req.op = "edit_box"
     /\ SelectBox(prev, lastCommit.req.box_id) # {}
     /\ CleanTags(GetList(lastCommit.req.form, "tags")))
    => EditBoxReplaced(lastCommit.req.form, lastCommit.req.box_id)

\* An edit_box has just replaced the tags kitchen, tools of a box that holds
\* items by winter gear, another box existing.
C8_Witness ==
    /\ lastCommit.req.op = "edit_box"
    /\ GetList(lastCommit.req.form, "tags") = <<TagWinterGear>>
    /\ \E old \in SelectBox(prev, lastCommit.req.box_id) :
           old.tags = AddBoxTagsStr(<<TagKitchen, TagTools>>)
    /\ SelectItems(db, lastCommit.req.box_id) # {}
    /\ \E b \in db.boxes : b.id # lastCommit.req.box_id

\* C9: every stored duration is one of the three; an add_box or an edit_box
\* of an existing box whose duration (the default included) is none of them
\* fails with the constraint's error (IntegrityError) and leaves boxes and
\* items unchanged.
C9_DurationConstraint ==
    /\ \A b \in db.boxes : b.duration \in Durations
    /\ (/\ res.req.op = "add_box"
        /\ Has(res.req.form, "box_name")
        /\ ~DurationOk(Get(res.req.form, "duration", "long-term")))
       => res.error = "IntegrityError" /\ lastCommit = NoCommit
    /\ (/\ res.req.op = "edit_box"
        /\ res.req.method = "POST"
        /\ Has(res.req.form, "box_name")
        /\ SelectBox(db, res.req.box_id) # {}
        /\ ~DurationOk(Get(res.req.form, "duration", "")))
       => res.error = "IntegrityError" /\ lastCommit = NoCommit

\* C10: a handler that has finished has released its connection, whatever
\* its outcome: no connection of a finished handler is open and none holds
\* an open transaction.
C10_ConnectionsReleased ==
    /\ leaked = 0
    /\ ~stale
    /\ \A p \in Workers : pc[p] = "idle" => ~conn[p]

\* ------------------------------------------------------- supporting facts
\* What holds of the parts of C7 and C9 the open connections do not reach.
\* An accepted add_item fails only on a locked database, and every add_item
\* that commits adds a row under a new id and keeps the rows there were.
AddItemFailsOnlyLockedOut ==
    /\ (res.req.op = "add_item" /\ ValidItemForm(res.req.form))
       => (res.status = "302" \/ res.error = "OperationalError")
    /\ lastCommit.req.op = "add_item"
       => /\ SelectItem(prev, lastCommit.rowid) = {}
          /\ SelectItem(db, lastCommit.rowid) # {}
          /\ prev.items \subseteq db.items

\* No row holds a duration outside the three, and a request that submits one
\* never commits.
StoredDurationsValid ==
    /\ \A b \in db.boxes : b.duration \in Durations
    /\ lastCommit.req.op = "add_box"
       => DurationOk(Get(lastCommit.req.form, "duration", "long-term"))
    /\ (lastCommit.req.op = "edit_box"
        /\ SelectBox(prev, lastCommit.req.box_id) # {})
       => DurationOk(Get(lastCommit.req.form, "duration", ""))

====
